---------------------------- MODULE Spec2Model ----------------------------
(***************************************************************************)
(* A model of three parts of the risor repository:                         *)
(*   - examples/go/conc/main.go: the Service host object, the runFunc      *)
(*     builtin, the process-wide task table taskKV and main's worker       *)
(*     goroutines;                                                         *)
(*   - repl/repl.go: the key handler of the REPL and execute;              *)
(*   - object: CompareTypes over the Type constants.                       *)
(* The virtual machine, the compiler and the parser are not part of the    *)
(* sources at hand; what the model needs of them is taken from the         *)
(* specification and is marked so where it is defined.                     *)
(***************************************************************************)
EXTENDS Integers, Sequences, FiniteSets, TLC

VARIABLES
    \* ---- Service (main.go:23-50), one wrapped instance driven by a script
    svc,            \* [name, running, startCount, stopCount]
    svcLast,        \* the last call on svc: [op, err, before]
    \* ---- CompareTypes (object): inputs and results
    cmpA, cmpB, cmpC, cmpRes,
    \* ---- the concurrent example (main.go:85-207)
    taskKV,         \* the process-wide task table: name -> closure
    rfLast,         \* the last runFunc call: [args, result, before]
    mainPc,         \* main's position
    drainLeft,      \* names main's range loop has not visited yet
    wgCount,        \* sync.WaitGroup counter
    drainNames,     \* the names in the table when main called wg.Add
    launched,       \* per worker: the goroutines main started for its task
    doneCalls,      \* per worker: its goroutine's calls of wg.Done
    wpc,            \* each worker goroutine's position
    wClosure,       \* the closure (taskRunner) each worker goroutine runs
    vmState,        \* each VM's Run: "idle", "running", "done", "failed"
    vmIp,           \* each VM's progress through the script (loop index)
    vmStartCancelled, \* was the context cancelled when Run was invoked
    executing,      \* per VM: the goroutines executing bytecode on it
    frameSvc,       \* per VM: the svc local of its active callback frame
    services,       \* the Service each worker wrapped
    svcAccess,      \* per Service: the goroutines that read or wrote it
    startFailed,    \* workers whose svc.Start() returned an error
    ctxCancelled,   \* the host context's cancellation signal
    exited,         \* the process has ended (log.Fatal, a runtime fatal error)
    \* ---- the REPL (repl.go)
    accumulate, column, history, historyIndex,
    historyPath,    \* TRUE when os.UserHomeDir succeeded
    historyFile,    \* the lines of ~/.risor_history
    stopped,        \* the key loop has ended
    c,              \* the compiler session: [instrs, syms, globals]
    lastOffset,     \* the offset execute handed to the last compile pass
    executed,       \* the lines execute was called with, in order
    results,        \* what each of them evaluated to
    navKey          \* key.Code of the last key event when it was Up or Down

svcVars  == <<svc, svcLast>>
cmpVars  == <<cmpA, cmpB, cmpC, cmpRes>>
concVars == <<taskKV, rfLast, mainPc, drainLeft, wgCount, wpc, wClosure, vmState,
              vmIp, vmStartCancelled, executing, frameSvc, services, svcAccess,
              startFailed, ctxCancelled, exited, drainNames, launched, doneCalls>>
tallyVars == <<drainNames, launched, doneCalls>>
replVars == <<accumulate, column, history, historyIndex, historyPath, historyFile,
              stopped, c, lastOffset, executed, results, navKey>>
vars     == <<svcVars, cmpVars, concVars, replVars>>

(***************************************************************************)
(* Bounds of the model.                                                    *)
(***************************************************************************)
NumTasks == 2       \* iterations of the script's loop (10 in defaultExample)
MaxCount == 4       \* cap on Service.startCount
MaxArgs == 3        \* longest argument list handed to runFunc
MaxLine == 2        \* longest line, in bytes, typed rune by rune
MaxEnters == 1      \* Enter keys per session when lines are typed rune by rune
MaxStmts == 2       \* Enter keys per session when whole statements are entered
MaxNavLine == 1     \* longest line typed when the history is navigated
MaxNavEnters == 2   \* Enter keys per session when the history is navigated

\* A nil error.
NoErr == <<>>

(***************************************************************************)
(* Service: main.go:23-50.                                                 *)
(***************************************************************************)
NewService == [name |-> "", running |-> FALSE, startCount |-> 0, stopCount |-> 0]

ErrAlreadyRunning(s) == <<"service ", s.name, " already running">>
ErrNotRunning(s) == <<"service ", s.name, " not running">>

\* A Start that forgets the running check: it always starts.
ServiceStartUnchecked(s) ==
    [svc |-> [s EXCEPT !.running = TRUE, !.startCount = @ + 1], err |-> NoErr]

\* func (s *Service) Start() error
ServiceStart(s) ==
    IF s.running
    THEN [svc |-> s, err |-> ErrAlreadyRunning(s)]
    ELSE [svc |-> [s EXCEPT !.running = TRUE, !.startCount = @ + 1], err |-> NoErr]

\* func (s *Service) Stop() error
ServiceStop(s) ==
    IF ~s.running
    THEN [svc |-> s, err |-> ErrNotRunning(s)]
    ELSE [svc |-> [s EXCEPT !.running = FALSE, !.stopCount = @ + 1], err |-> NoErr]

\* func (s *Service) SetName(name string)
ServiceSetName(s, name) == [s EXCEPT !.name = name]

SvcNames == {"a", "b"}

SvcInit ==
    /\ svc = NewService
    /\ svcLast = [op |-> "new", err |-> NoErr, before |-> NewService]

SvcStart ==
    /\ svc.startCount < MaxCount
    /\ LET r == ServiceStart(svc) IN
        /\ svc' = r.svc
        /\ svcLast' = [op |-> "Start", err |-> r.err, before |-> svc]
    /\ UNCHANGED <<cmpVars, concVars, replVars>>

SvcStop ==
    /\ LET r == ServiceStop(svc) IN
        /\ svc' = r.svc
        /\ svcLast' = [op |-> "Stop", err |-> r.err, before |-> svc]
    /\ UNCHANGED <<cmpVars, concVars, replVars>>

SvcSetName ==
    /\ \E n \in SvcNames :
        /\ svc' = ServiceSetName(svc, n)
        /\ svcLast' = [op |-> "SetName", err |-> NoErr, before |-> svc]
    /\ UNCHANGED <<cmpVars, concVars, replVars>>

(***************************************************************************)
(* CompareTypes: object (src/unnamed/part_000:26-72, 183-193).             *)
(***************************************************************************)
TypeNames ==
    {"bool", "buffer", "builtin", "byte_slice", "byte", "cell", "color", "complex",
     "complex_slice", "dir_entry", "dynamic_attr", "duration", "error", "file",
     "file_info", "file_iter", "file_mode", "float", "float_slice", "function",
     "go_type", "go_field", "go_method", "http_response", "int", "iter_entry",
     "list", "list_iter", "map", "map_iter", "module", "nil", "partial", "proxy",
     "regexp", "result", "set", "set_iter", "slice_iter", "string", "string_iter",
     "time"}

\* The bytes of each type name (a Go string is its bytes).
TypeBytes ==
    ("bool" :> <<98, 111, 111, 108>>)
    @@ ("buffer" :> <<98, 117, 102, 102, 101, 114>>)
    @@ ("builtin" :> <<98, 117, 105, 108, 116, 105, 110>>)
    @@ ("byte_slice" :> <<98, 121, 116, 101, 95, 115, 108, 105, 99, 101>>)
    @@ ("byte" :> <<98, 121, 116, 101>>)
    @@ ("cell" :> <<99, 101, 108, 108>>)
    @@ ("color" :> <<99, 111, 108, 111, 114>>)
    @@ ("complex" :> <<99, 111, 109, 112, 108, 101, 120>>)
    @@ ("complex_slice" :> <<99, 111, 109, 112, 108, 101, 120, 95, 115, 108, 105, 99, 101>>)
    @@ ("dir_entry" :> <<100, 105, 114, 95, 101, 110, 116, 114, 121>>)
    @@ ("dynamic_attr" :> <<100, 121, 110, 97, 109, 105, 99, 95, 97, 116, 116, 114>>)
    @@ ("duration" :> <<100, 117, 114, 97, 116, 105, 111, 110>>)
    @@ ("error" :> <<101, 114, 114, 111, 114>>)
    @@ ("file" :> <<102, 105, 108, 101>>)
    @@ ("file_info" :> <<102, 105, 108, 101, 95, 105, 110, 102, 111>>)
    @@ ("file_iter" :> <<102, 105, 108, 101, 95, 105, 116, 101, 114>>)
    @@ ("file_mode" :> <<102, 105, 108, 101, 95, 109, 111, 100, 101>>)
    @@ ("float" :> <<102, 108, 111, 97, 116>>)
    @@ ("float_slice" :> <<102, 108, 111, 97, 116, 95, 115, 108, 105, 99, 101>>)
    @@ ("function" :> <<102, 117, 110, 99, 116, 105, 111, 110>>)
    @@ ("go_type" :> <<103, 111, 95, 116, 121, 112, 101>>)
    @@ ("go_field" :> <<103, 111, 95, 102, 105, 101, 108, 100>>)
    @@ ("go_method" :> <<103, 111, 95, 109, 101, 116, 104, 111, 100>>)
    @@ ("http_response" :> <<104, 116, 116, 112, 95, 114, 101, 115, 112, 111, 110, 115, 101>>)
    @@ ("int" :> <<105, 110, 116>>)
    @@ ("iter_entry" :> <<105, 116, 101, 114, 95, 101, 110, 116, 114, 121>>)
    @@ ("list" :> <<108, 105, 115, 116>>)
    @@ ("list_iter" :> <<108, 105, 115, 116, 95, 105, 116, 101, 114>>)
    @@ ("map" :> <<109, 97, 112>>)
    @@ ("map_iter" :> <<109, 97, 112, 95, 105, 116, 101, 114>>)
    @@ ("module" :> <<109, 111, 100, 117, 108, 101>>)
    @@ ("nil" :> <<110, 105, 108>>)
    @@ ("partial" :> <<112, 97, 114, 116, 105, 97, 108>>)
    @@ ("proxy" :> <<112, 114, 111, 120, 121>>)
    @@ ("regexp" :> <<114, 101, 103, 101, 120, 112>>)
    @@ ("result" :> <<114, 101, 115, 117, 108, 116>>)
    @@ ("set" :> <<115, 101, 116>>)
    @@ ("set_iter" :> <<115, 101, 116, 95, 105, 116, 101, 114>>)
    @@ ("slice_iter" :> <<115, 108, 105, 99, 101, 95, 105, 116, 101, 114>>)
    @@ ("string" :> <<115, 116, 114, 105, 110, 103>>)
    @@ ("string_iter" :> <<115, 116, 114, 105, 110, 103, 95, 105, 116, 101, 114>>)
    @@ ("time" :> <<116, 105, 109, 101>>)

\* Go's < on strings: byte by byte, a proper prefix is smaller.
RECURSIVE BytesLess(_, _)
BytesLess(s, t) ==
    IF t = <<>> THEN FALSE
    ELSE IF s = <<>> THEN TRUE
    ELSE IF Head(s) # Head(t) THEN Head(s) < Head(t)
    ELSE BytesLess(Tail(s), Tail(t))

\* aType < bType
TypeLess(aType, bType) == BytesLess(TypeBytes[aType], TypeBytes[bType])

\* A CompareTypes without the inequality test around the comparison.
CompareTypesNoEqual(aType, bType) ==
    IF TypeLess(aType, bType) THEN -1 ELSE 1

\* func CompareTypes(a, b Object) int, on a.Type() and b.Type()
CompareTypes(aType, bType) ==
    IF aType # bType
    THEN IF TypeLess(aType, bType) THEN -1 ELSE 1
    ELSE 0

NoCmp == [done |-> FALSE, ab |-> 0, ba |-> 0, bc |-> 0, ac |-> 0]

CmpIdle ==
    /\ cmpA = "nil" /\ cmpB = "nil" /\ cmpC = "nil"
    /\ cmpRes = NoCmp

CmpInit ==
    /\ cmpA \in TypeNames /\ cmpB \in TypeNames /\ cmpC \in TypeNames
    /\ cmpRes = NoCmp

CmpApply ==
    /\ ~cmpRes.done
    /\ cmpRes' = [done |-> TRUE,
                  ab |-> CompareTypes(cmpA, cmpB), ba |-> CompareTypes(cmpB, cmpA),
                  bc |-> CompareTypes(cmpB, cmpC), ac |-> CompareTypes(cmpA, cmpC)]
    /\ UNCHANGED <<cmpA, cmpB, cmpC, svcVars, concVars, replVars>>

(***************************************************************************)
(* The concurrent example: main.go:71-207.                                 *)
(***************************************************************************)
Workers == 1..NumTasks      \* goroutine 0 is main; worker w runs ScriptName(w-1)
VMs == 0..NumTasks          \* VM 0 is main's vm.New(code); VM w is worker w's machine
NoVM == -1

\* Values of the object model, as far as runFunc tells them apart.
StringObj(v) == [type |-> "string", value |-> v]
FunctionObj(id) == [type |-> "function", value |-> id]
IntObj(n) == [type |-> "int", value |-> <<n>>]
NilObj == [type |-> "nil", value |-> <<>>]

\* 'svc-{i}' of defaultExample, i < 10.
SvcNameTable ==
    <<"svc-0", "svc-1", "svc-2", "svc-3", "svc-4", "svc-5", "svc-6", "svc-7",
      "svc-8", "svc-9">>
ScriptName(i) == SvcNameTable[i + 1]

\* The arguments of the script's i-th runFunc call, evaluated on VM v: the name
\* and the function literal (a function object of that VM closing over i).
ScriptArgs(i, v) == <<StringObj(ScriptName(i)), FunctionObj(<<i, v>>)>>

\* ctx = context.WithValue(ctx, vmFuncKey, vmFunc): no call dispatcher yet.
MainCtx == [vmFunc |-> TRUE, callVM |-> NoVM]

\* The context a VM hands to the builtins it calls carries that VM's call
\* dispatcher (object.GetCallFunc finds it).
WithCallFunc(ctx, v) == [ctx EXCEPT !.callVM = v]

NoClosure == [ctx |-> MainCtx, fn |-> <<NoVM, NoVM>>, name |-> ""]

RfNil == [kind |-> "nil", msg |-> ""]
RfError(msg) == [kind |-> "error", msg |-> msg]
RfPanic == [kind |-> "panic", msg |-> "index out of range"]

\* func runFunc(ctx, args ...object.Object) object.Object: the value returned
\* and the task table after the call.  args[0] and args[1] are indexed
\* without a length check.
runFunc(ctx, args, kv) ==
    IF Len(args) < 1 THEN [result |-> RfPanic, kv |-> kv]
    ELSE IF args[1].type # "string"
    THEN [result |-> RfError("expected a string"), kv |-> kv]
    ELSE IF Len(args) < 2 THEN [result |-> RfPanic, kv |-> kv]
    ELSE IF args[2].type # "function"
    THEN [result |-> RfError("expected a function"), kv |-> kv]
    ELSE LET name == args[1].value
             task == [ctx |-> ctx, fn |-> args[2].value, name |-> name]
         IN  [result |-> RfNil,
              kv |-> [n \in DOMAIN kv \cup {name} |-> IF n = name THEN task ELSE kv[n]]]

EmptyKV == [n \in {} |-> NoClosure]
NoCall == [args |-> <<>>, result |-> RfNil, before |-> EmptyKV]

ConcInit ==
    /\ taskKV = EmptyKV
    /\ rfLast = NoCall
    /\ mainPc = "run"
    /\ drainLeft = {}
    /\ wgCount = 0
    /\ drainNames = {}
    /\ launched = [w \in Workers |-> 0]
    /\ doneCalls = [w \in Workers |-> 0]
    /\ wpc = [w \in Workers |-> "idle"]
    /\ wClosure = [w \in Workers |-> NoClosure]
    /\ vmState = [v \in VMs |-> "idle"]
    /\ vmIp = [v \in VMs |-> 0]
    /\ vmStartCancelled = [v \in VMs |-> FALSE]
    /\ executing = [v \in VMs |-> {}]
    /\ frameSvc = [v \in VMs |-> 0]
    /\ services = [w \in Workers |-> NewService]
    /\ svcAccess = [w \in Workers |-> {}]
    /\ startFailed = {}
    /\ ctxCancelled = FALSE
    /\ exited = FALSE

\* main.go:148-157: the loop body of defaultExample on VM v, its call of the
\* runFunc builtin with the context the VM hands to builtins.
ScriptCall(v, ctx) == runFunc(WithCallFunc(ctx, v), ScriptArgs(vmIp[v], v), taskKV)

\* One step of VM v's Run(ctx): the entry, or the next iteration of the
\* script's loop with its runFunc call.  A cancelled context aborts Run at
\* the entry and at each builtin call; a builtin returning anything but nil
\* aborts it too.  Gives the VM's state, loop index and table afterwards.
RunStep(v, ctx) ==
    IF vmState[v] = "idle"
    THEN [state |-> IF ctxCancelled THEN "failed" ELSE "running",
          ip |-> 0, kv |-> taskKV, startCancelled |-> ctxCancelled, wrote |-> FALSE]
    ELSE IF ctxCancelled
    THEN [state |-> "failed", ip |-> vmIp[v], kv |-> taskKV,
          startCancelled |-> FALSE, wrote |-> FALSE]
    ELSE LET r == ScriptCall(v, ctx) IN
         [state |-> IF r.result.kind # "nil" THEN "failed"
                    ELSE IF vmIp[v] + 1 = NumTasks THEN "done" ELSE "running",
          ip |-> vmIp[v] + 1, kv |-> r.kv, startCancelled |-> FALSE, wrote |-> TRUE]

\* The effect of a RunStep by goroutine g on the VM's and the table's state.
ApplyRun(v, g, r) ==
    /\ vmState' = [vmState EXCEPT ![v] = r.state]
    /\ vmIp' = [vmIp EXCEPT ![v] = r.ip]
    /\ vmStartCancelled' = [vmStartCancelled EXCEPT ![v] = @ \/ r.startCancelled]
    /\ executing' = [executing EXCEPT ![v] =
                        IF r.state = "running" THEN @ \cup {g} ELSE @ \ {g}]
    /\ taskKV' = r.kv

\* The host cancels the context.
Cancel ==
    /\ ~exited /\ ~ctxCancelled
    /\ ctxCancelled' = TRUE
    /\ UNCHANGED <<taskKV, rfLast, mainPc, drainLeft, wgCount, wpc, wClosure, vmState,
                   vmIp, vmStartCancelled, executing, frameSvc, services, svcAccess,
                   startFailed, exited>>
    /\ UNCHANGED <<svcVars, cmpVars, replVars>>
    /\ UNCHANGED tallyVars

\* main.go:187-189: vm.New(code).Run(ctx), log.Fatal on an error.
MainRun ==
    /\ ~exited /\ mainPc = "run"
    /\ LET r == RunStep(0, MainCtx) IN
        /\ ApplyRun(0, 0, r)
        /\ mainPc' = IF r.state = "done" THEN "add" ELSE "run"
        /\ exited' = (r.state = "failed")
    /\ UNCHANGED <<rfLast, drainLeft, wgCount, wpc, wClosure, frameSvc, services,
                   svcAccess, startFailed, ctxCancelled>>
    /\ UNCHANGED <<svcVars, cmpVars, replVars>>
    /\ UNCHANGED tallyVars

\* A wg.Add that counts one goroutine too few.
WgAddShort(kv) == Cardinality(DOMAIN kv) - 1

\* main.go:197: wg.Add(len(taskKV))
WgAdd(kv) == Cardinality(DOMAIN kv)

\* main.go:196-198: wg.Add(len(taskKV)) and the start of the range loop.
MainAdd ==
    /\ ~exited /\ mainPc = "add"
    /\ wgCount' = WgAdd(taskKV)
    /\ drainNames' = DOMAIN taskKV
    /\ drainLeft' = DOMAIN taskKV
    /\ mainPc' = IF DOMAIN taskKV = {} THEN "wait" ELSE "drain"
    /\ UNCHANGED <<taskKV, rfLast, wpc, wClosure, vmState, vmIp, vmStartCancelled,
                   executing, frameSvc, services, svcAccess, startFailed,
                   ctxCancelled, exited>>
    /\ UNCHANGED <<svcVars, cmpVars, replVars>>
    /\ UNCHANGED <<launched, doneCalls>>

WorkerOf(name) == CHOOSE w \in Workers : ScriptName(w - 1) = name

\* main.go:198-204: one iteration of the range loop reads the entry as it is
\* now and starts its goroutine.
MainLaunch ==
    /\ ~exited /\ mainPc = "drain"
    /\ \E name \in drainLeft :
        /\ drainLeft' = drainLeft \ {name}
        /\ wClosure' = [wClosure EXCEPT ![WorkerOf(name)] = taskKV[name]]
        /\ wpc' = [wpc EXCEPT ![WorkerOf(name)] = "start"]
        /\ launched' = [launched EXCEPT ![WorkerOf(name)] = @ + 1]
        /\ mainPc' = IF drainLeft = {name} THEN "wait" ELSE "drain"
    /\ UNCHANGED <<taskKV, rfLast, wgCount, vmState, vmIp, vmStartCancelled,
                   executing, frameSvc, services, svcAccess, startFailed,
                   ctxCancelled, exited>>
    /\ UNCHANGED <<svcVars, cmpVars, replVars>>
    /\ UNCHANGED <<drainNames, doneCalls>>

\* main.go:206-207: wg.Wait() returns and main ends the process.
MainWait ==
    /\ ~exited /\ mainPc = "wait"
    /\ wgCount = 0
    /\ mainPc' = "done"
    /\ exited' = TRUE
    /\ UNCHANGED <<taskKV, rfLast, drainLeft, wgCount, wpc, wClosure, vmState, vmIp,
                   vmStartCancelled, executing, frameSvc, services, svcAccess,
                   startFailed, ctxCancelled>>
    /\ UNCHANGED <<svcVars, cmpVars, replVars>>
    /\ UNCHANGED tallyVars

\* main.go:101-110: the task's own VM and its own Service.
WorkerNew(w) ==
    /\ ~exited /\ wpc[w] = "start"
    /\ IF wClosure[w].ctx.vmFunc
       THEN /\ services' = [services EXCEPT ![w] = NewService]
            /\ wpc' = [wpc EXCEPT ![w] = "run"]
            /\ exited' = exited
       ELSE /\ exited' = TRUE
            /\ UNCHANGED <<services, wpc>>
    /\ UNCHANGED <<taskKV, rfLast, mainPc, drainLeft, wgCount, wClosure, vmState, vmIp,
                   vmStartCancelled, executing, frameSvc, svcAccess, startFailed,
                   ctxCancelled>>
    /\ UNCHANGED <<svcVars, cmpVars, replVars>>
    /\ UNCHANGED tallyVars

\* A worker that goes on to the callback when machine.Run failed.
WorkerRunErrorIgnored(state) == FALSE

\* main.go:112-114: if err = machine.Run(ctx); err != nil { log.Fatal(err) }
WorkerRunErrorExits(state) == state = "failed"

\* Another goroutine may be reading or writing taskKV while w's Run writes it.
MapRace(w) ==
    \/ mainPc = "drain"
    \/ \E o \in Workers \ {w} : vmState[o] = "running"

\* main.go:112: machine.Run(ctx) on the worker's VM, with the captured ctx.
\* An unsynchronised write to the Go map either goes through or ends the
\* process with the runtime's "concurrent map writes".
WorkerRun(w) ==
    /\ ~exited /\ wpc[w] = "run"
    /\ LET r == RunStep(w, wClosure[w].ctx) IN
        \E fatal \in IF r.wrote /\ MapRace(w) THEN BOOLEAN ELSE {FALSE} :
            IF fatal
            THEN /\ exited' = TRUE
                 /\ UNCHANGED <<taskKV, vmState, vmIp, vmStartCancelled, executing, wpc>>
            ELSE /\ ApplyRun(w, w, r)
                 /\ exited' = WorkerRunErrorExits(r.state)
                 /\ wpc' = [wpc EXCEPT ![w] =
                              IF r.state = "done"
                                 \/ (r.state = "failed" /\ ~WorkerRunErrorExits(r.state))
                              THEN "call" ELSE "run"]
    /\ UNCHANGED <<rfLast, mainPc, drainLeft, wgCount, wClosure, frameSvc, services,
                   svcAccess, startFailed, ctxCancelled>>
    /\ UNCHANGED <<svcVars, cmpVars, replVars>>
    /\ UNCHANGED tallyVars

\* The VM whose dispatcher object.GetCallFunc(ctx) finds in the captured ctx.
CallVM(w) == wClosure[w].ctx.callVM

\* main.go:116-121: callFunc(ctx, fn, []object.Object{svcProxy}) enters the
\* dispatcher's VM and binds the callback's parameter svc in its frame.  With
\* no dispatcher in ctx the error value is dropped and the nil callFunc is
\* called.
WorkerCall(w) ==
    /\ ~exited /\ wpc[w] = "call"
    /\ IF CallVM(w) = NoVM
       THEN /\ exited' = TRUE
            /\ UNCHANGED <<executing, frameSvc, wpc>>
       ELSE /\ executing' = [executing EXCEPT ![CallVM(w)] = @ \cup {w}]
            /\ frameSvc' = [frameSvc EXCEPT ![CallVM(w)] = w]
            /\ wpc' = [wpc EXCEPT ![w] = "cbSetName"]
            /\ exited' = exited
    /\ UNCHANGED <<taskKV, rfLast, mainPc, drainLeft, wgCount, wClosure, vmState, vmIp,
                   vmStartCancelled, services, svcAccess, startFailed, ctxCancelled>>
    /\ UNCHANGED <<svcVars, cmpVars, replVars>>
    /\ UNCHANGED tallyVars

\* main.go:150-151: svc.SetName('svc-{i}') on the svc the VM's frame holds.
CbSetName(w) ==
    /\ ~exited /\ wpc[w] = "cbSetName"
    /\ LET s == frameSvc[CallVM(w)] IN
        /\ services' = [services EXCEPT
                          ![s] = ServiceSetName(@, ScriptName(wClosure[w].fn[1]))]
        /\ svcAccess' = [svcAccess EXCEPT ![s] = @ \cup {w}]
    /\ wpc' = [wpc EXCEPT ![w] = "cbStart"]
    /\ UNCHANGED <<taskKV, rfLast, mainPc, drainLeft, wgCount, wClosure, vmState, vmIp,
                   vmStartCancelled, executing, frameSvc, startFailed, ctxCancelled,
                   exited>>
    /\ UNCHANGED <<svcVars, cmpVars, replVars>>
    /\ UNCHANGED tallyVars

\* main.go:152: svc.Start(); an error it returns ends the callback, callFunc
\* returns it and main.go:121-123 log.Fatalf's.
CbStart(w) ==
    /\ ~exited /\ wpc[w] = "cbStart"
    /\ LET s == frameSvc[CallVM(w)]
           r == ServiceStart(services[s]) IN
        /\ services' = [services EXCEPT ![s] = r.svc]
        /\ svcAccess' = [svcAccess EXCEPT ![s] = @ \cup {w}]
        /\ startFailed' = IF r.err # NoErr THEN startFailed \cup {w} ELSE startFailed
        /\ exited' = (r.err # NoErr)
        /\ wpc' = [wpc EXCEPT ![w] = IF r.err # NoErr THEN "cbStart" ELSE "cbState"]
    /\ UNCHANGED <<taskKV, rfLast, mainPc, drainLeft, wgCount, wClosure, vmState, vmIp,
                   vmStartCancelled, executing, frameSvc, ctxCancelled>>
    /\ UNCHANGED <<svcVars, cmpVars, replVars>>
    /\ UNCHANGED tallyVars

\* main.go:153-155 and 200-203: svc.GetState(), print, state.IsRunning(); the
\* callback returns, then the deferred wg.Done().
CbReturn(w) ==
    /\ ~exited /\ wpc[w] = "cbState"
    /\ svcAccess' = [svcAccess EXCEPT ![frameSvc[CallVM(w)]] = @ \cup {w}]
    /\ executing' = [executing EXCEPT ![CallVM(w)] = @ \ {w}]
    /\ wgCount' = wgCount - 1
    /\ doneCalls' = [doneCalls EXCEPT ![w] = @ + 1]
    /\ wpc' = [wpc EXCEPT ![w] = "done"]
    /\ UNCHANGED <<taskKV, rfLast, mainPc, drainLeft, wClosure, vmState, vmIp,
                   vmStartCancelled, frameSvc, services, startFailed, ctxCancelled,
                   exited>>
    /\ UNCHANGED <<svcVars, cmpVars, replVars>>
    /\ UNCHANGED <<drainNames, launched>>

(***************************************************************************)
(* The compiler session, risor.Eval and the VM, as the REPL uses them.     *)
(* None of the three is among the sources; this is the specification's     *)
(* account: an append-only main instruction stream with a symbol table, a  *)
(* compile pass told the offset where its instructions start, and a VM     *)
(* that executes the stream from that offset.                              *)
(***************************************************************************)
GlobalNames == {"x", "y"}
Digits == {"1", "2"}
DigitValue(ch) == IF ch = "1" THEN 1 ELSE 2

\* compiler.New(compiler.WithBuiltins(r.Builtins))
NewCompiler == [instrs |-> <<>>, syms |-> {}, globals |-> [n \in GlobalNames |-> 0]]

Instr(op, arg) == [op |-> op, arg |-> arg]

IsSpace(ch) == ch = " "
StripSpaces(line) == SelectSeq(line, LAMBDA ch : ~IsSpace(ch))

IsAtom(ch) == ch \in GlobalNames \cup Digits
IsExpr(e) ==
    \/ Len(e) = 1 /\ IsAtom(e[1])
    \/ Len(e) = 3 /\ IsAtom(e[1]) /\ e[2] = "+" /\ IsAtom(e[3])

\* parser.Parse: one statement of a small part of the language.
\*   x := e    x = e    e      with e ::= a | a + a,  a ::= x | y | 1 | 2
Parse(line) ==
    LET t == StripSpaces(line) IN
    IF t = <<>> THEN [kind |-> "empty", name |-> "", expr |-> <<>>]
    ELSE IF Len(t) >= 4 /\ t[1] \in GlobalNames /\ t[2] = ":" /\ t[3] = "="
            /\ IsExpr(SubSeq(t, 4, Len(t)))
    THEN [kind |-> "define", name |-> t[1], expr |-> SubSeq(t, 4, Len(t))]
    ELSE IF Len(t) >= 3 /\ t[1] \in GlobalNames /\ t[2] = "="
            /\ IsExpr(SubSeq(t, 3, Len(t)))
    THEN [kind |-> "assign", name |-> t[1], expr |-> SubSeq(t, 3, Len(t))]
    ELSE IF IsExpr(t) THEN [kind |-> "expr", name |-> "", expr |-> t]
    ELSE [kind |-> "error", name |-> "", expr |-> <<>>]

AtomOk(a, syms) == a \in Digits \/ a \in syms
CompileAtom(a) ==
    IF a \in Digits THEN <<Instr("LoadConst", a)>> ELSE <<Instr("LoadGlobal", a)>>

\* The instructions emitted for an expression; a name the symbol table does
\* not hold is an error, and what was emitted before it stays emitted.
CompileExpr(e, syms) ==
    IF ~AtomOk(e[1], syms) THEN [ok |-> FALSE, code |-> <<>>]
    ELSE IF Len(e) = 1 THEN [ok |-> TRUE, code |-> CompileAtom(e[1])]
    ELSE IF ~AtomOk(e[3], syms) THEN [ok |-> FALSE, code |-> CompileAtom(e[1])]
    ELSE [ok |-> TRUE,
          code |-> CompileAtom(e[1]) \o CompileAtom(e[3]) \o <<Instr("Add", "")>>]

\* Compiler.Compile(ast): appends to the main instruction stream.
Compile(ast, comp) ==
    IF ast.kind = "empty" THEN [ok |-> TRUE, comp |-> comp]
    ELSE IF ast.kind = "assign" /\ ast.name \notin comp.syms
    THEN [ok |-> FALSE, comp |-> comp]
    ELSE LET ce == CompileExpr(ast.expr, comp.syms)
             store == IF ce.ok /\ ast.kind \in {"define", "assign"}
                      THEN <<Instr("StoreGlobal", ast.name)>> ELSE <<>>
         IN  [ok |-> ce.ok,
              comp |-> [comp EXCEPT
                          !.instrs = @ \o ce.code \o store,
                          !.syms = IF ce.ok /\ ast.kind = "define"
                                   THEN @ \cup {ast.name} ELSE @]]

\* The VM's loop over instrs[ip..], ip counted from 0 as in the source.
RECURSIVE VmExec(_, _, _, _)
VmExec(instrs, ip, stack, globals) ==
    IF ip >= Len(instrs) THEN [stack |-> stack, globals |-> globals]
    ELSE LET i == instrs[ip + 1] IN
         IF i.op = "LoadConst"
         THEN VmExec(instrs, ip + 1, <<DigitValue(i.arg)>> \o stack, globals)
         ELSE IF i.op = "LoadGlobal"
         THEN VmExec(instrs, ip + 1, <<globals[i.arg]>> \o stack, globals)
         ELSE IF i.op = "Add"
         THEN IF Len(stack) < 2 THEN [stack |-> <<>>, globals |-> globals]
              ELSE VmExec(instrs, ip + 1,
                          <<stack[1] + stack[2]>> \o SubSeq(stack, 3, Len(stack)), globals)
         ELSE IF Len(stack) < 1 THEN [stack |-> <<>>, globals |-> globals]
              ELSE VmExec(instrs, ip + 1, Tail(stack),
                          [globals EXCEPT ![i.arg] = stack[1]])

ResNil == [kind |-> "nil", val |-> 0]
ResInt(n) == [kind |-> "int", val |-> n]
ResErr(what) == [kind |-> what, val |-> 0]

\* risor.Eval(ctx, code, WithCompiler(comp), WithInstructionOffset(offset)):
\* parse, compile into comp, run a VM on comp's stream from offset, and give
\* the top of its stack (nil when a statement left none).
Eval(code, comp, offset) ==
    LET ast == Parse(code) IN
    IF ast.kind = "error" THEN [comp |-> comp, result |-> ResErr("parse error")]
    ELSE LET cr == Compile(ast, comp) IN
         IF ~cr.ok THEN [comp |-> cr.comp, result |-> ResErr("compile error")]
         ELSE LET run == VmExec(cr.comp.instrs, offset, <<>>, cr.comp.globals) IN
              [comp |-> [cr.comp EXCEPT !.globals = run.globals],
               result |-> IF run.stack = <<>> THEN ResNil ELSE ResInt(run.stack[1])]

(***************************************************************************)
(* The REPL: repl.go.                                                      *)
(***************************************************************************)
\* An execute that hands every compile pass offset 0.
ExecuteOffsetZero(comp) == 0

\* repl.go:182: offset := len(c.MainInstructions())
ExecuteOffset(comp) == Len(comp.instrs)

\* An execute that leaves risor.WithCompiler(c) out: Eval makes its own.
ExecuteOwnCompiler(comp) == NewCompiler

\* repl.go:184-187: risor.WithCompiler(c), the session's compiler
ExecuteCompiler(comp) == comp

\* func execute(ctx, code, c, options): the session compiler afterwards, the
\* offset handed to the compile pass and the result.
execute(code, comp) ==
    LET offset == ExecuteOffset(comp)
        used == ExecuteCompiler(comp)
        ev == Eval(code, used, offset)
    IN  [comp |-> IF used = comp THEN ev.comp ELSE comp,
         offset |-> offset, result |-> ev.result]

\* string(key.Runes): the UTF-8 bytes of the runes; len(key.Runes) is Len(runes).
\* U+00E9 (e acute) stands for the runes that take more than one byte.
Utf8(rune) == IF rune = "U+00E9" THEN <<"C3", "A9">> ELSE <<rune>>
RECURSIVE RunesToString(_)
RunesToString(runes) ==
    IF runes = <<>> THEN <<>> ELSE Utf8(Head(runes)) \o RunesToString(Tail(runes))

\* Go's s[lo:hi] on a string of bytes.
Slice(s, lo, hi) == SubSeq(s, lo + 1, hi)

\* strings.Split(data, "\n")
RECURSIVE SplitLines(_, _)
SplitLines(data, cur) ==
    IF data = <<>> THEN <<cur>>
    ELSE IF Head(data) = "\n" THEN <<cur>> \o SplitLines(Tail(data), <<>>)
    ELSE SplitLines(Tail(data), Append(cur, Head(data)))

\* key.Code of a key event that is neither keys.Up nor keys.Down.
NoKey == "other"

\* Contents ~/.risor_history may have when the REPL starts.
HistoryFiles == { <<"x", "\n">> }

\* repl.go:32-47: the state when keyboard.Listen starts, with the history
\* file, when there is one, holding one of files.
ReplLoad(files) ==
    /\ column = 0
    /\ accumulate = <<>>
    /\ historyPath \in BOOLEAN
    /\ \E readable \in BOOLEAN, data \in files :
        /\ historyFile = IF historyPath /\ readable THEN data ELSE <<>>
        /\ history = IF historyPath /\ readable THEN SplitLines(data, <<>>) ELSE <<>>
        /\ historyIndex = IF historyPath /\ readable
                          THEN Len(SplitLines(data, <<>>)) - 1 ELSE 0
    /\ stopped = FALSE
    /\ c = NewCompiler
    /\ lastOffset = 0
    /\ executed = <<>>
    /\ results = <<>>
    /\ navKey = NoKey

ReplInit == ReplLoad(HistoryFiles)

ReplIdle ==
    /\ column = 0 /\ accumulate = <<>> /\ historyPath = FALSE /\ historyFile = <<>>
    /\ history = <<>> /\ historyIndex = 0 /\ stopped = FALSE /\ c = NewCompiler
    /\ lastOffset = 0 /\ executed = <<>> /\ results = <<>> /\ navKey = NoKey

\* repl.go:49-58: appendToHistory(line)
appendToHistory(line) ==
    IF historyPath THEN historyFile \o line \o <<"\n">> ELSE historyFile

\* An Enter handler that ends the key loop when the line failed.
EnterStopOnError(result) == result.kind \notin {"nil", "int"}

\* repl.go:80 and 171: execute's result and error are dropped, and the
\* handler returns false, nil.
EnterStop(result) == FALSE

\* repl.go:78-86
KeyEnter ==
    /\ ~stopped
    /\ navKey' = NoKey
    /\ LET r == execute(accumulate, c) IN
        /\ c' = r.comp
        /\ lastOffset' = r.offset
        /\ executed' = Append(executed, accumulate)
        /\ results' = Append(results, r.result)
        /\ stopped' = EnterStop(r.result)
    /\ historyFile' = appendToHistory(accumulate)
    /\ history' = Append(history, accumulate)
    /\ historyIndex' = Len(history')
    /\ accumulate' = <<>>
    /\ column' = 0
    /\ UNCHANGED historyPath
    /\ UNCHANGED <<svcVars, cmpVars, concVars>>

\* repl.go:87-97
KeyRune(runes) ==
    /\ ~stopped
    /\ navKey' = NoKey
    /\ IF column < Len(accumulate)
       THEN accumulate' = Slice(accumulate, 0, column) \o RunesToString(runes)
                            \o Slice(accumulate, column, Len(accumulate))
       ELSE accumulate' = accumulate \o RunesToString(runes)
    /\ column' = column + Len(runes)
    /\ UNCHANGED <<history, historyIndex, historyPath, historyFile, stopped, c,
                   lastOffset, executed, results>>
    /\ UNCHANGED <<svcVars, cmpVars, concVars>>

\* A Backspace that moves the cursor left even at column 0.
BackspaceColumnAlways(col) == col - 1

\* repl.go:111-113: if column > 0 { column-- }
BackspaceColumn(col) == IF col > 0 THEN col - 1 ELSE col

\* repl.go:98-114
KeyBackspace ==
    /\ ~stopped
    /\ navKey' = NoKey
    /\ IF Len(accumulate) > 0
       THEN /\ IF column < Len(accumulate)
               THEN IF column > 0
                    THEN accumulate' = Slice(accumulate, 0, column - 1)
                                         \o Slice(accumulate, column, Len(accumulate))
                    ELSE accumulate' = accumulate
               ELSE accumulate' = Slice(accumulate, 0, Len(accumulate) - 1)
            /\ column' = BackspaceColumn(column)
       ELSE UNCHANGED <<accumulate, column>>
    /\ UNCHANGED <<history, historyIndex, historyPath, historyFile, stopped, c,
                   lastOffset, executed, results>>
    /\ UNCHANGED <<svcVars, cmpVars, concVars>>

\* repl.go:115-128
KeyDelete ==
    /\ ~stopped
    /\ navKey' = NoKey
    /\ IF Len(accumulate) > 0 /\ column < Len(accumulate)
       THEN LET rest == Slice(accumulate, column + 1, Len(accumulate)) IN
            IF Len(rest) > 0
            THEN accumulate' = Slice(accumulate, 0, column) \o rest
            ELSE accumulate' = Slice(accumulate, 0, column)
       ELSE accumulate' = accumulate
    /\ UNCHANGED <<column, history, historyIndex, historyPath, historyFile, stopped, c,
                   lastOffset, executed, results>>
    /\ UNCHANGED <<svcVars, cmpVars, concVars>>

\* A recall that leaves the cursor at the start of the line.
RecallColumnZero(line) == 0

\* repl.go:135 and 144: column = len(accumulate)
RecallColumn(line) == Len(line)

\* repl.go:129-137
KeyUp ==
    /\ ~stopped
    /\ navKey' = "Up"
    /\ LET hi == IF historyIndex > 0 THEN historyIndex - 1 ELSE historyIndex IN
        /\ historyIndex' = hi
        /\ IF hi < Len(history)
           THEN /\ accumulate' = history[hi + 1]
                /\ column' = RecallColumn(history[hi + 1])
           ELSE UNCHANGED <<accumulate, column>>
    /\ UNCHANGED <<history, historyPath, historyFile, stopped, c, lastOffset,
                   executed, results>>
    /\ UNCHANGED <<svcVars, cmpVars, concVars>>

\* A Down that moves the index without looking at the history's length.
DownIndexAlways(hi, h) == hi + 1

\* repl.go:139-141: if historyIndex < len(history)-1 { historyIndex++ }
DownIndex(hi, h) == IF hi < Len(h) - 1 THEN hi + 1 ELSE hi

\* repl.go:138-150
KeyDown ==
    /\ ~stopped
    /\ navKey' = "Down"
    /\ LET hi == DownIndex(historyIndex, history) IN
        /\ historyIndex' = hi
        /\ IF hi < Len(history)
           THEN /\ accumulate' = history[hi + 1]
                /\ column' = RecallColumn(history[hi + 1])
           ELSE /\ column' = 0
                /\ accumulate' = <<>>
    /\ UNCHANGED <<history, historyPath, historyFile, stopped, c, lastOffset,
                   executed, results>>
    /\ UNCHANGED <<svcVars, cmpVars, concVars>>

\* repl.go:151-155
KeyLeft ==
    /\ ~stopped
    /\ navKey' = NoKey
    /\ column' = IF column > 0 THEN column - 1 ELSE column
    /\ UNCHANGED <<accumulate, history, historyIndex, historyPath, historyFile,
                   stopped, c, lastOffset, executed, results>>
    /\ UNCHANGED <<svcVars, cmpVars, concVars>>

\* repl.go:156-160
KeyRight ==
    /\ ~stopped
    /\ navKey' = NoKey
    /\ column' = IF column < Len(accumulate) THEN column + 1 ELSE column
    /\ UNCHANGED <<accumulate, history, historyIndex, historyPath, historyFile,
                   stopped, c, lastOffset, executed, results>>
    /\ UNCHANGED <<svcVars, cmpVars, concVars>>

\* repl.go:161-163
KeyCtrlA ==
    /\ ~stopped
    /\ navKey' = NoKey
    /\ column' = 0
    /\ UNCHANGED <<accumulate, history, historyIndex, historyPath, historyFile,
                   stopped, c, lastOffset, executed, results>>
    /\ UNCHANGED <<svcVars, cmpVars, concVars>>

\* repl.go:164-166
KeyCtrlE ==
    /\ ~stopped
    /\ navKey' = NoKey
    /\ column' = Len(accumulate)
    /\ UNCHANGED <<accumulate, history, historyIndex, historyPath, historyFile,
                   stopped, c, lastOffset, executed, results>>
    /\ UNCHANGED <<svcVars, cmpVars, concVars>>

\* repl.go:167-169: keys.CtrlC, keys.CtrlD
KeyCtrlC ==
    /\ ~stopped
    /\ navKey' = NoKey
    /\ stopped' = TRUE
    /\ UNCHANGED <<accumulate, column, history, historyIndex, historyPath,
                   historyFile, c, lastOffset, executed, results>>
    /\ UNCHANGED <<svcVars, cmpVars, concVars>>

(***************************************************************************)
(* Specifications.                                                         *)
(***************************************************************************)
\* The example program: main and its worker goroutines, under a host that may
\* cancel the context.
Init == SvcInit /\ CmpIdle /\ ConcInit /\ ReplIdle

Next ==
    \/ Cancel
    \/ MainRun
    \/ MainAdd
    \/ MainLaunch
    \/ MainWait
    \/ \E w \in Workers : WorkerNew(w)
    \/ \E w \in Workers : WorkerRun(w)
    \/ \E w \in Workers : WorkerCall(w)
    \/ \E w \in Workers : CbSetName(w)
    \/ \E w \in Workers : CbStart(w)
    \/ \E w \in Workers : CbReturn(w)

Spec == Init /\ [][Next]_vars

\* The example program under Go's scheduler: a goroutine that can take a
\* step eventually takes it.  Nothing obliges the host to cancel.
Fairness ==
    /\ WF_vars(MainRun) /\ WF_vars(MainAdd) /\ WF_vars(MainLaunch) /\ WF_vars(MainWait)
    /\ \A w \in Workers :
        /\ WF_vars(WorkerNew(w)) /\ WF_vars(WorkerRun(w)) /\ WF_vars(WorkerCall(w))
        /\ WF_vars(CbSetName(w)) /\ WF_vars(CbStart(w)) /\ WF_vars(CbReturn(w))

SpecFair == Init /\ [][Next]_vars /\ Fairness

\* A script calling Start, Stop and SetName on one wrapped Service.
ServiceNext == SvcStart \/ SvcStop \/ SvcSetName

SpecService == Init /\ [][ServiceNext]_vars

\* CompareTypes applied to every triple of types.
TypesInit == SvcInit /\ CmpInit /\ ConcInit /\ ReplIdle

SpecTypes == TypesInit /\ [][CmpApply]_vars

\* A script on main's VM calling runFunc with any argument lists.
ArgObjects ==
    {StringObj(ScriptName(0)), StringObj(ScriptName(1)), FunctionObj(<<0, 0>>),
     FunctionObj(<<1, 0>>), IntObj(1), NilObj}
ArgLists == UNION {[1..n -> ArgObjects] : n \in 0..MaxArgs}

\* One call of the builtin by the VM; a panic in it ends the run.
CallRunFunc ==
    /\ ~exited
    /\ \E args \in ArgLists :
        LET r == runFunc(WithCallFunc(MainCtx, 0), args, taskKV) IN
        /\ taskKV' = r.kv
        /\ rfLast' = [args |-> args, result |-> r.result, before |-> taskKV]
        /\ exited' = (r.result.kind = "panic")
    /\ UNCHANGED <<mainPc, drainLeft, wgCount, wpc, wClosure, vmState, vmIp,
                   vmStartCancelled, executing, frameSvc, services, svcAccess,
                   startFailed, ctxCancelled>>
    /\ UNCHANGED <<svcVars, cmpVars, replVars>>
    /\ UNCHANGED tallyVars

SpecRunFunc == Init /\ [][CallRunFunc]_vars

\* The REPL with lines typed and edited rune by rune.
EditRunes == { <<"x">>, <<"U+00E9">> }

ReplStart == SvcInit /\ CmpIdle /\ ConcInit /\ ReplInit

ReplNext ==
    \/ Len(executed) < MaxEnters /\ KeyEnter
    \/ \E runes \in EditRunes :
        Len(accumulate) + Len(RunesToString(runes)) <= MaxLine /\ KeyRune(runes)
    \/ KeyBackspace
    \/ KeyDelete
    \/ KeyUp
    \/ KeyDown
    \/ KeyLeft
    \/ KeyRight
    \/ KeyCtrlA
    \/ KeyCtrlE
    \/ KeyCtrlC

SpecRepl == ReplStart /\ [][ReplNext]_vars

\* The REPL started on each kind of history file (none, empty, ending in a
\* newline as appendToHistory leaves it, ending without one), with short
\* lines of one rune typed, edited, entered and recalled.
NavFiles == { <<>>, <<"x", "\n">>, <<"x", "\n", "y">> }

NavStart == SvcInit /\ CmpIdle /\ ConcInit /\ ReplLoad(NavFiles)

NavNext ==
    \/ Len(executed) < MaxNavEnters /\ KeyEnter
    \/ Len(accumulate) < MaxNavLine /\ KeyRune(<<"x">>)
    \/ KeyBackspace
    \/ KeyDelete
    \/ KeyUp
    \/ KeyDown
    \/ KeyLeft
    \/ KeyRight
    \/ KeyCtrlA
    \/ KeyCtrlE
    \/ KeyCtrlC

SpecNav == NavStart /\ [][NavNext]_vars

\* The REPL with whole statements entered, each by one key event carrying
\* its runes, and earlier lines recalled from the history.
LineDefine == <<"x", " ", ":", "=", " ", "1">>
LineUse == <<"x", " ", "+", " ", "1">>
LineAssign == <<"x", " ", "=", " ", "2">>
LineUndefined == <<"x", " ", "+", " ", "y">>
LineBroken == <<"x", " ", "+">>
Statements == {LineDefine, LineUse, LineAssign, LineUndefined, LineBroken}

SessionNext ==
    \/ Len(executed) < MaxStmts /\ KeyEnter
    \/ \E runes \in Statements : accumulate = <<>> /\ KeyRune(runes)
    \/ KeyUp
    \/ KeyDown
    \/ KeyCtrlC

SpecSession == ReplStart /\ [][SessionNext]_vars

(***************************************************************************)
(* Properties.                                                             *)
(***************************************************************************)

\* C1: no VM instance executes bytecode for two goroutines at the same time:
\* every worker runs the script and its callback on its own VM only.
C1_OneGoroutinePerVM ==
    \A v \in VMs : Cardinality(executing[v]) <= 1

\* C2: once main has started iterating taskKV and launching workers, no
\* goroutine writes to the table.
C2_NoWriteWhileDraining ==
    [][(mainPc \in {"drain", "wait"}) => (taskKV' = taskKV)]_vars

\* C3: a Run invoked with an already-cancelled context fails without a
\* builtin call; for main's Run that means an empty task table and no worker
\* started, and a worker whose Run failed never calls its callback.
C3_CancelledRunFiresNothing ==
    /\ \A v \in VMs : vmStartCancelled[v] => vmState[v] = "failed" /\ vmIp[v] = 0
    /\ vmStartCancelled[0] =>
         /\ taskKV = EmptyKV
         /\ \A w \in Workers : wpc[w] = "idle"
         /\ exited
    /\ \A w \in Workers : vmState[w] = "failed" =>
         /\ wpc[w] = "run"
         /\ w \notin executing[CallVM(w)]
         /\ svcAccess[w] = {}

\* A worker's Run was invoked after the context was cancelled.
C3_Witness ==
    \E w \in Workers : vmStartCancelled[w] /\ vmState[w] = "failed" /\ exited

\* An argument list with a string first and a function second.
WellTyped(args) ==
    Len(args) >= 2 /\ args[1].type = "string" /\ args[2].type = "function"

\* C7: runFunc reports a first argument that is no string, or a second that
\* is no function, as an Error Value and never panics, and then leaves the
\* table as it was; with a string and a function it registers the task under
\* the name and returns nil.
C7_RunFuncArguments ==
    rfLast # NoCall =>
        IF WellTyped(rfLast.args)
        THEN /\ rfLast.result = RfNil
             /\ DOMAIN taskKV = DOMAIN rfLast.before \cup {rfLast.args[1].value}
             /\ taskKV[rfLast.args[1].value].fn = rfLast.args[2].value
             /\ \A n \in DOMAIN rfLast.before \ {rfLast.args[1].value} :
                    taskKV[n] = rfLast.before[n]
        ELSE /\ rfLast.result.kind = "error"
             /\ taskKV = rfLast.before

\* C8: Start succeeds exactly on a service that is not running and Stop on
\* one that is; the error names the service; a failed call changes nothing;
\* running holds exactly when startCount = stopCount + 1, else they are equal.
C8_StartStop ==
    /\ svcLast.op = "Start" =>
         IF svcLast.before.running
         THEN /\ svcLast.err = <<"service ", svcLast.before.name, " already running">>
              /\ svc = svcLast.before
         ELSE /\ svcLast.err = NoErr
              /\ svc.running
    /\ svcLast.op = "Stop" =>
         IF ~svcLast.before.running
         THEN /\ svcLast.err = <<"service ", svcLast.before.name, " not running">>
              /\ svc = svcLast.before
         ELSE /\ svcLast.err = NoErr
              /\ ~svc.running
    /\ svc.running <=> svc.startCount = svc.stopCount + 1
    /\ ~svc.running => svc.startCount = svc.stopCount

\* A second Start of the running service "a" was refused.
C8_Witness ==
    /\ svcLast.op = "Start" /\ svcLast.err # NoErr
    /\ svc.name = "a" /\ svc.startCount = 2 /\ svc.stopCount = 1

\* C9: no Service is read or written by two goroutines, each worker's
\* callback works on the Service that worker wrapped, and every svc.Start()
\* succeeds.
C9_ServicesNotShared ==
    /\ startFailed = {}
    /\ \A s \in Workers : svcAccess[s] \subseteq {s}

\* The type names in lexical (dictionary) order.
LexicalOrder ==
    <<"bool", "buffer", "builtin", "byte", "byte_slice", "cell", "color", "complex",
      "complex_slice", "dir_entry", "duration", "dynamic_attr", "error", "file",
      "file_info", "file_iter", "file_mode", "float", "float_slice", "function",
      "go_field", "go_method", "go_type", "http_response", "int", "iter_entry",
      "list", "list_iter", "map", "map_iter", "module", "nil", "partial", "proxy",
      "regexp", "result", "set", "set_iter", "slice_iter", "string", "string_iter",
      "time">>
Rank(t) == CHOOSE i \in 1..Len(LexicalOrder) : LexicalOrder[i] = t

\* C6: CompareTypes is 0 exactly on equal types, -1 exactly when the first
\* name comes first in the lexical order of the names and 1 otherwise,
\* antisymmetric and transitive.
C6_CompareTypesOrder ==
    cmpRes.done =>
        /\ (cmpRes.ab = 0) <=> (cmpA = cmpB)
        /\ cmpRes.ab = IF cmpA = cmpB THEN 0
                       ELSE IF Rank(cmpA) < Rank(cmpB) THEN -1 ELSE 1
        /\ cmpRes.ab = -cmpRes.ba
        /\ (cmpRes.ab = -1 /\ cmpRes.bc = -1) => cmpRes.ac = -1

\* "byte" < "byte_slice" < "cell" was compared.
C6_Witness ==
    /\ cmpRes.done /\ cmpA = "byte" /\ cmpB = "byte_slice" /\ cmpC = "cell"
    /\ cmpRes.ab = -1 /\ cmpRes.bc = -1 /\ cmpRes.ac = -1

\* C4: each compile pass is handed the length the main instruction stream
\* has just before it, the offsets never decrease, and a line leaves the
\* instructions already in the stream as they are.
C4_OffsetIsStreamLength ==
    [][(Len(executed') > Len(executed)) =>
         (/\ lastOffset' = Len(c.instrs)
          /\ lastOffset' >= lastOffset
          /\ Len(c'.instrs) >= Len(c.instrs)
          /\ SubSeq(c'.instrs, 1, Len(c.instrs)) = c.instrs)]_vars

\* A second line was compiled at a positive offset and added instructions.
C4_Witness ==
    Len(executed) = 2 /\ lastOffset > 0 /\ Len(c.instrs) > lastOffset

\* C5: after x := 1 was executed, a later x + 1 of the same session gives 2,
\* unless x was assigned in between.
C5_BindingVisible ==
    \A i, j \in 1..Len(executed) :
        ( /\ i < j
          /\ executed[i] = LineDefine
          /\ executed[j] = LineUse
          /\ \A k \in (i + 1)..(j - 1) : executed[k] # LineAssign )
        => results[j] = ResInt(2)

\* x := 1 and then x + 1 were executed.
C5_Witness ==
    /\ Len(executed) = 2
    /\ executed[1] = LineDefine /\ executed[2] = LineUse
    /\ results[2] = ResInt(2)

\* C10: the cursor stays inside the line.
C10_CursorInLine ==
    0 <= column /\ column <= Len(accumulate)

\* After an Enter, the cursor stands in the middle of a line of two bytes.
C10_Witness ==
    column = 1 /\ Len(accumulate) = 2 /\ Len(executed) = 1

C12_HistoryIndexInRange ==
    /\ [](0 <= historyIndex /\ historyIndex <= Len(history))
    /\ [][ /\ KeyEnter => ( /\ Len(history') = Len(history) + 1
                            /\ SubSeq(history', 1, Len(history)) = history )
           /\ ~KeyEnter => history' = history ]_vars

\* A history of two loaded entries and one entered, with the index moved
\* back to the oldest entry.
C12_Witness ==
    /\ Len(history) = 3 /\ Len(executed) = 1
    /\ historyIndex = 0

\* The reference single-line editor the line-editing keys are held against:
\* a line of characters, each the whole encoding of one rune, and a cursor
\* between two of them, at a byte offset into the line.
\* The length in bytes of the character that ends at offset col, col > 0.
CharBefore(line, col) ==
    IF col >= 2 /\ Slice(line, col - 2, col) = Utf8("U+00E9") THEN 2 ELSE 1

\* The length in bytes of the character that starts at offset col.
CharAt(line, col) ==
    IF col + 2 <= Len(line) /\ Slice(line, col, col + 2) = Utf8("U+00E9") THEN 2 ELSE 1

RefInsert(line, col, r) ==
    [line |-> Slice(line, 0, col) \o r \o Slice(line, col, Len(line)),
     column |-> col + Len(r)]

RefBackspace(line, col) ==
    IF col = 0 THEN [line |-> line, column |-> col]
    ELSE [line |-> Slice(line, 0, col - CharBefore(line, col))
                     \o Slice(line, col, Len(line)),
          column |-> col - CharBefore(line, col)]

RefDelete(line, col) ==
    IF col >= Len(line) THEN [line |-> line, column |-> col]
    ELSE [line |-> Slice(line, 0, col)
                     \o Slice(line, col + CharAt(line, col), Len(line)),
          column |-> col]

\* C13: the line-editing keys do what the reference editor does: runes r
\* typed at column c give line[:c] + r + line[c:] with the cursor at
\* c + len(r); Backspace removes the character before the cursor and moves
\* the cursor left by it, and nothing at column 0; Delete removes the
\* character at the cursor and leaves the cursor, and nothing at the end of
\* the line; Left, Right, Ctrl-A and Ctrl-E leave the line as it is.
C13_MatchesReferenceEditor ==
    [][ /\ \A runes \in EditRunes :
             KeyRune(runes) =>
                LET ref == RefInsert(accumulate, column, RunesToString(runes)) IN
                accumulate' = ref.line /\ column' = ref.column
        /\ KeyBackspace =>
                LET ref == RefBackspace(accumulate, column) IN
                accumulate' = ref.line /\ column' = ref.column
        /\ KeyDelete =>
                LET ref == RefDelete(accumulate, column) IN
                accumulate' = ref.line /\ column' = ref.column
        /\ (KeyLeft \/ KeyRight \/ KeyCtrlA \/ KeyCtrlE) => accumulate' = accumulate
      ]_vars

\* The line shows the history entry at the index, cursor at its end.
ShowsEntry ==
    /\ historyIndex < Len(history)
    /\ accumulate = history[historyIndex + 1]
    /\ column = Len(accumulate)

\* The index is past the newest entry and the line is empty.
ShowsEmptyLine ==
    /\ historyIndex = Len(history)
    /\ accumulate = <<>>
    /\ column = 0

\* An Up or Down step moves the index by at most one, and not at all when
\* it is Up at index 0 or Down at the newest entry.
NavMovesByOne ==
    (KeyUp \/ KeyDown) =>
        /\ historyIndex' - historyIndex \in {-1, 0, 1}
        /\ (KeyUp /\ historyIndex = 0) => historyIndex' = 0
        /\ (KeyDown /\ historyIndex = Len(history) - 1) => historyIndex' = historyIndex

\* C14 as stated: after every Up or Down the index has moved by at most one
\* and either the line is history[historyIndex] with the cursor at its end,
\* or historyIndex = len(history) and the line is empty with the cursor at
\* column 0; Up at index 0 and Down at the newest entry leave the index.
C14_LineFollowsIndex ==
    /\ [](navKey \in {"Up", "Down"} => (ShowsEntry \/ ShowsEmptyLine))
    /\ [][NavMovesByOne]_vars

\* C14 as amended: as stated after Down, and after Up whenever the history
\* has an entry; Up on an empty history leaves the index at 0 = len(history)
\* and the line and the cursor as they were.
C14_LineFollowsIndexOrStays ==
    /\ [](navKey = "Down" => (ShowsEntry \/ ShowsEmptyLine))
    /\ [](navKey = "Up" => (ShowsEntry \/ (history = <<>> /\ historyIndex = 0)))
    /\ [][ /\ NavMovesByOne
           /\ (KeyUp /\ history = <<>>) =>
                   (accumulate' = accumulate /\ column' = column) ]_vars

\* Up, after a line was typed and entered on a loaded history, shows an
\* older entry than the one just entered.
C14_Witness ==
    /\ navKey = "Up"
    /\ Len(executed) = 1 /\ executed[1] # <<>>
    /\ historyIndex = Len(history) - 2
    /\ ShowsEntry /\ accumulate # <<>>

\* The workers main has started, and whether all it is to start have
\* finished their task.
Started == { w \in Workers : launched[w] > 0 }
AllTasksReturned ==
    /\ mainPc = "wait"
    /\ \A w \in Started : wpc[w] = "done"

\* C15: main starts one goroutine for each name the table held at wg.Add and
\* none else, a worker calls wg.Done once, when its task has returned, the
\* counter is never negative and counts the started workers yet to finish,
\* main is past wg.Wait only when every started worker has finished, and
\* once every task has returned main terminates.
C15_WaitGroupAccounting ==
    /\ []( /\ \A w \in Workers : launched[w] <= 1
           /\ \A w \in Started : ScriptName(w - 1) \in drainNames
           /\ mainPc \in {"wait", "done"} =>
                 \A name \in drainNames : launched[WorkerOf(name)] = 1
           /\ \A w \in Workers :
                 /\ doneCalls[w] <= launched[w]
                 /\ doneCalls[w] = 1 <=> wpc[w] = "done"
           /\ wgCount >= 0
           /\ mainPc \in {"drain", "wait", "done"} =>
                 wgCount = Cardinality({ name \in drainNames :
                                          doneCalls[WorkerOf(name)] = 0 })
           /\ mainPc = "done" => \A w \in Started : wpc[w] = "done" )
    /\ (AllTasksReturned ~> (mainPc = "done"))

\* Every name of the script got its worker, every worker has finished and
\* main has returned from wg.Wait.
C15_Witness ==
    /\ mainPc = "done"
    /\ Cardinality(drainNames) = NumTasks
    /\ \A w \in Workers : launched[w] = 1 /\ doneCalls[w] = 1 /\ wpc[w] = "done"
    /\ wgCount = 0

=============================================================================
